---- MODULE Spec2Model ----
(***************************************************************************)
(* OrderProcessingStack (lib/order-processing-stack.ts): the behaviour the *)
(* stack declares.  Two subsystems that share no state:                     *)
(*   - the OrderWorkflow state machine (ValidateOrder -> ProcessPayment -> *)
(*     GenerateReceipt -> NotifyCustomer -> OrderComplete, timeout 5 min)   *)
(*     together with the receipts bucket its GenerateReceipt task writes;   *)
(*   - the order queue with its dead-letter queue and the SQS event source *)
(*     of ProcessOrderFunction.                                             *)
(* Nothing in the stack starts OrderWorkflow from the queue (the consumer   *)
(* has neither the state machine's ARN nor a grant to start it), so         *)
(* executions are started by StartExecution calls from outside.             *)
(***************************************************************************)
EXTENDS Integers, Sequences, FiniteSets, TLC

\* ------------------------------------------------------------------ bounds
MaxExecutions == 2
MaxMessages == 3

\* ------------------------------------------------------- program constants
TimeoutMinutes == 5
MaxReceiveCount == 3
BatchSize == 10

Executions == 1..MaxExecutions
\* Order ids: every execution can be about an order of its own.
Orders == 1..MaxExecutions
Messages == 1..MaxMessages

VARIABLES
    status,        \* execution -> "NONE" | "RUNNING" | "SUCCEEDED" | "FAILED" | "TIMED_OUT"
    order,         \* execution -> the order of its input (0 before it starts)
    step,          \* execution -> the state it is in (where it stopped, once ended)
    doc,           \* execution -> the JSON document passed from state to state
    elapsed,       \* execution -> minutes it has been running (0 when not running)
    trace,         \* execution -> the states that have completed, in order
    bucket,        \* receipts bucket: key -> the stored object versions
    lastWrite,     \* order -> content of the latest successful receipt write
    msgState,      \* message -> "unsent" | "visible" | "deleted" | "dlq"
    receiveCount,  \* message -> ApproximateReceiveCount
    ownFailures    \* message -> deliveries in which this very record failed

wfVars == <<status, order, step, doc, elapsed, trace, bucket, lastWrite>>
qVars == <<msgState, receiveCount, ownFailures>>
vars == <<status, order, step, doc, elapsed, trace, bucket, lastWrite,
          msgState, receiveCount, ownFailures>>

NoDoc == [k \in {} |-> 0]
NoContent == <<0, 0>>

\* ------------------------------------------------------------ the workflow

\* A faulty chaining: GenerateReceipt and NotifyCustomer in the opposite
\* order.
NextStateSwapped(s) ==
    CASE s = "ValidateOrder" -> "ProcessPayment"
      [] s = "ProcessPayment" -> "NotifyCustomer"
      [] s = "NotifyCustomer" -> "GenerateReceipt"
      [] s = "GenerateReceipt" -> "OrderComplete"

\* definition = validateOrder.next(processPayment).next(generateReceipt)
\*                .next(notifyCustomer).next(orderComplete)
NextState(s) ==
    CASE s = "ValidateOrder" -> "ProcessPayment"
      [] s = "ProcessPayment" -> "GenerateReceipt"
      [] s = "GenerateReceipt" -> "NotifyCustomer"
      [] s = "NotifyCustomer" -> "OrderComplete"

StartAt == "ValidateOrder"

\* The input of an execution: the order payload, a JSON object.
ExecutionInput(o) == [orderId |-> o]

\* A faulty Pass: resultPath '$', the result replaces the input.
PassOutputReplace(input, key, result) == [k \in {key} |-> result]

\* sfn.Pass with result and resultPath '$.<key>': the input with the result
\* put under <key>, every other key as it was.
PassOutput(input, key, result) ==
    [k \in DOMAIN input \cup {key} |-> IF k = key THEN result ELSE input[k]]

ValidateOrderResult == [validated |-> TRUE]
ProcessPaymentResult == [paymentStatus |-> "SUCCESS"]

\* tasks.LambdaInvoke with outputPath '$.Payload' and the default resultPath
\* '$': the task result (the Invoke response, the function's return value in
\* its Payload field) replaces the input, and the output path keeps its
\* Payload.
LambdaInvokeOutput(input, payload) ==
    LET taskResult == [StatusCode |-> 200, Payload |-> payload]
        afterResultPath == taskResult
    IN  afterResultPath.Payload

\* Storage key of an order's receipt.
ReceiptKey(o) == <<"receipts", o>>
Keys == {ReceiptKey(o) : o \in Orders}

\* Content of the receipt an execution writes.
ReceiptContent(e) == <<order[e], e>>

\* What generate-receipt returns: the receipt reference, with or without the
\* rest of its event.
GenerateReceiptPayloads(event) ==
    { [k \in DOMAIN event \cup {"receiptKey"} |->
          IF k = "receiptKey" THEN ReceiptKey(event.orderId) ELSE event[k]],
      [orderId |-> event.orderId, receiptKey |-> ReceiptKey(event.orderId)] }

\* What process-order returns (the workflow output shown in the README).
ProcessOrderPayload(event) ==
    [processed |-> 1,
     results |-> <<[orderId |-> event.orderId, status |-> "PROCESSED"]>>]

\* A faulty bucket: versioned, so a write keeps the old object.
PutObjectVersioned(b, key, content) ==
    [b EXCEPT ![key] = Append(@, content)]

\* PutObject on the receipts bucket (not versioned): the object at the key
\* is replaced.
PutObject(b, key, content) ==
    [b EXCEPT ![key] = <<content>>]

Running(e) == status[e] = "RUNNING"
Terminal(e) == status[e] \in {"SUCCEEDED", "FAILED", "TIMED_OUT"}

\* A faulty state machine: no timeout set.
TimedOutNever(e) == FALSE

\* timeout: cdk.Duration.minutes(5)
TimedOut(e) == elapsed[e] >= TimeoutMinutes

InState(e, s) == Running(e) /\ ~TimedOut(e) /\ step[e] = s

Advance(e) ==
    /\ step' = [step EXCEPT ![e] = NextState(step[e])]
    /\ trace' = [trace EXCEPT ![e] = Append(@, step[e])]
    /\ UNCHANGED <<status, order, elapsed>>

\* The orders some execution was started for.  Order ids are opaque, so they
\* are numbered in the order of their first execution.
KnownOrders == {order[e] : e \in {d \in Executions : status[d] # "NONE"}}

\* StartExecution on OrderWorkflow with an order as input.
StartExecution(e, o) ==
    /\ status[e] = "NONE"
    /\ \A d \in Executions : d < e => status[d] # "NONE"
    /\ o \in KnownOrders \cup {Cardinality(KnownOrders) + 1}
    /\ status' = [status EXCEPT ![e] = "RUNNING"]
    /\ order' = [order EXCEPT ![e] = o]
    /\ step' = [step EXCEPT ![e] = StartAt]
    /\ doc' = [doc EXCEPT ![e] = ExecutionInput(o)]
    /\ UNCHANGED <<elapsed, trace, bucket, lastWrite, qVars>>

ValidateOrder(e) ==
    /\ InState(e, "ValidateOrder")
    /\ doc' = [doc EXCEPT ![e] = PassOutput(@, "validation", ValidateOrderResult)]
    /\ Advance(e)
    /\ UNCHANGED <<bucket, lastWrite, qVars>>

ProcessPayment(e) ==
    /\ InState(e, "ProcessPayment")
    /\ doc' = [doc EXCEPT ![e] = PassOutput(@, "payment", ProcessPaymentResult)]
    /\ Advance(e)
    /\ UNCHANGED <<bucket, lastWrite, qVars>>

\* GenerateReceiptFunction returns: the receipt is written, the state's
\* output is the function's payload.
GenerateReceipt(e) ==
    /\ InState(e, "GenerateReceipt")
    /\ \E payload \in GenerateReceiptPayloads(doc[e]) :
          doc' = [doc EXCEPT ![e] = LambdaInvokeOutput(@, payload)]
    /\ bucket' = PutObject(bucket, ReceiptKey(order[e]), ReceiptContent(e))
    /\ lastWrite' = [lastWrite EXCEPT ![order[e]] = ReceiptContent(e)]
    /\ Advance(e)
    /\ UNCHANGED qVars

NotifyCustomer(e) ==
    /\ InState(e, "NotifyCustomer")
    /\ doc' = [doc EXCEPT ![e] = LambdaInvokeOutput(@, ProcessOrderPayload(@))]
    /\ Advance(e)
    /\ UNCHANGED <<bucket, lastWrite, qVars>>

\* A faulty engine: the error of a late Lambda response is applied to an
\* execution that has timed out already.
TaskFailedLate(e) ==
    /\ status[e] \in {"RUNNING", "TIMED_OUT"}
    /\ step[e] \in {"GenerateReceipt", "NotifyCustomer"}
    /\ status' = [status EXCEPT ![e] = "FAILED"]
    /\ elapsed' = [elapsed EXCEPT ![e] = 0]
    /\ UNCHANGED <<order, step, doc, trace, bucket, lastWrite, qVars>>

\* A LambdaInvoke task whose function fails: neither task has a Catch, so
\* the execution fails in that state; nothing was written.
TaskFailed(e) ==
    /\ \/ InState(e, "GenerateReceipt")
       \/ InState(e, "NotifyCustomer")
    /\ status' = [status EXCEPT ![e] = "FAILED"]
    /\ elapsed' = [elapsed EXCEPT ![e] = 0]
    /\ UNCHANGED <<order, step, doc, trace, bucket, lastWrite, qVars>>

\* sfn.Succeed
OrderComplete(e) ==
    /\ InState(e, "OrderComplete")
    /\ status' = [status EXCEPT ![e] = "SUCCEEDED"]
    /\ trace' = [trace EXCEPT ![e] = Append(@, "OrderComplete")]
    /\ elapsed' = [elapsed EXCEPT ![e] = 0]
    /\ UNCHANGED <<order, step, doc, bucket, lastWrite, qVars>>

\* A minute passes, for every running execution alike.  An execution whose
\* timeout is due is ended before more time passes.
Tick ==
    /\ \E e \in Executions : Running(e)
    /\ \A e \in Executions : Running(e) => elapsed[e] < TimeoutMinutes
    /\ elapsed' = [e \in Executions |->
                      IF Running(e) THEN elapsed[e] + 1 ELSE elapsed[e]]
    /\ UNCHANGED <<status, order, step, doc, trace, bucket, lastWrite, qVars>>

\* The state machine's timeout ends the execution, whatever state it is in.
Timeout(e) ==
    /\ Running(e)
    /\ TimedOut(e)
    /\ status' = [status EXCEPT ![e] = "TIMED_OUT"]
    /\ elapsed' = [elapsed EXCEPT ![e] = 0]
    /\ UNCHANGED <<order, step, doc, trace, bucket, lastWrite, qVars>>

Init ==
    /\ status = [e \in Executions |-> "NONE"]
    /\ order = [e \in Executions |-> 0]
    /\ step = [e \in Executions |-> "None"]
    /\ doc = [e \in Executions |-> NoDoc]
    /\ elapsed = [e \in Executions |-> 0]
    /\ trace = [e \in Executions |-> <<>>]
    /\ bucket = [k \in Keys |-> <<>>]
    /\ lastWrite = [o \in Orders |-> NoContent]
    /\ msgState = [m \in Messages |-> "unsent"]
    /\ receiveCount = [m \in Messages |-> 0]
    /\ ownFailures = [m \in Messages |-> 0]

Step(e) ==
    \/ ValidateOrder(e)
    \/ ProcessPayment(e)
    \/ GenerateReceipt(e)
    \/ NotifyCustomer(e)
    \/ TaskFailed(e)
    \/ OrderComplete(e)
    \/ Running(e) /\ Tick
    \/ Timeout(e)

Next ==
    \/ \E e \in Executions, o \in Orders : StartExecution(e, o)
    \/ \E e \in Executions : ValidateOrder(e)
    \/ \E e \in Executions : ProcessPayment(e)
    \/ \E e \in Executions : GenerateReceipt(e)
    \/ \E e \in Executions : NotifyCustomer(e)
    \/ \E e \in Executions : TaskFailed(e)
    \/ \E e \in Executions : OrderComplete(e)
    \/ Tick
    \/ \E e \in Executions : Timeout(e)

Spec == Init /\ [][Next]_vars

\* Step Functions runs every started execution on: a state finishes, time
\* passes, or the timeout fires.
FairSpec == Spec /\ \A e \in Executions : WF_vars(Step(e))

\* --------------------------------------------------------------- the queue

\* create-order sends the submission event of an order to order-queue.
SendMessage(m) ==
    /\ msgState[m] = "unsent"
    /\ \A d \in Messages : d < m => msgState[d] # "unsent"
    /\ msgState' = [msgState EXCEPT ![m] = "visible"]
    /\ UNCHANGED <<receiveCount, ownFailures, wfVars>>

\* A faulty redrive: the message is dead-lettered one receive early.
RedriveDueEarly(m) == receiveCount[m] + 1 >= MaxReceiveCount

\* deadLetterQueue: { queue: orderDlq, maxReceiveCount: 3 }: a message that
\* has been received maxReceiveCount times is not received again, it goes to
\* order-dlq.
RedriveDue(m) == receiveCount[m] >= MaxReceiveCount

Receivable == {m \in Messages : msgState[m] = "visible" /\ ~RedriveDue(m)}

\* The batches the event source can hand to one invocation.
Batches == {B \in SUBSET Receivable : B # {} /\ Cardinality(B) <= BatchSize}

\* SqsEventSource(orderQueue, { batchSize: 10 }), reportBatchItemFailures
\* not set: the messages of a batch that go back to the queue.  The
\* invocation fails when a record fails, and then the whole batch returns.
ReturnedToQueue(B, failed) == IF failed = {} THEN {} ELSE B

\* One invocation of ProcessOrderFunction by the event source: the batch B
\* is received, the records in `failed` fail, the invocation ends, and the
\* batch is deleted or becomes visible again.
Deliver(B, failed) ==
    /\ B \in Batches
    /\ failed \subseteq B
    /\ receiveCount' = [m \in Messages |->
                           IF m \in B THEN receiveCount[m] + 1 ELSE receiveCount[m]]
    /\ ownFailures' = [m \in Messages |->
                           IF m \in failed THEN ownFailures[m] + 1 ELSE ownFailures[m]]
    /\ msgState' = [m \in Messages |->
                       IF m \in B \ ReturnedToQueue(B, failed)
                       THEN "deleted" ELSE msgState[m]]
    /\ UNCHANGED wfVars

\* The queue moves a message that used up its receives to order-dlq.
Redrive(m) ==
    /\ msgState[m] = "visible"
    /\ RedriveDue(m)
    /\ msgState' = [msgState EXCEPT ![m] = "dlq"]
    /\ UNCHANGED <<receiveCount, ownFailures, wfVars>>

QueueNext ==
    \/ \E m \in Messages : SendMessage(m)
    \/ \E B \in SUBSET Messages : \E failed \in SUBSET B : Deliver(B, failed)
    \/ \E m \in Messages : Redrive(m)

QueueSpec == Init /\ [][QueueNext]_vars

\* ---------------------------------------------------------------- the claims

Completed(e, s) == \E i \in 1..Len(trace[e]) : trace[e][i] = s

DeclaredOrder ==
    <<"ValidateOrder", "ProcessPayment", "GenerateReceipt", "NotifyCustomer",
      "OrderComplete">>

C2_KeysKept ==
    \A e \in Executions :
        Completed(e, "NotifyCustomer") =>
            /\ "orderId" \in DOMAIN doc[e] /\ doc[e]["orderId"] = order[e]
            /\ "validation" \in DOMAIN doc[e]
            /\ doc[e]["validation"] = [validated |-> TRUE]
            /\ "payment" \in DOMAIN doc[e]
            /\ doc[e]["payment"] = [paymentStatus |-> "SUCCESS"]

\* C2 as amended: Validate and ProcessPayment add their output under their
\* own key and keep every earlier key with its value; GenerateReceipt and
\* NotifyCustomer replace the whole document by their function's payload,
\* so the document of a finished run is {processed, results} alone.
C2_PassMergesLambdaReplaces ==
    \A e \in Executions :
        LET n == Len(trace[e])
            o == order[e]
            paid == [orderId |-> o, validation |-> [validated |-> TRUE],
                     payment |-> [paymentStatus |-> "SUCCESS"]]
        IN  status[e] # "NONE" =>
              /\ n = 0 => doc[e] = [orderId |-> o]
              /\ n = 1 => doc[e] = [orderId |-> o, validation |-> [validated |-> TRUE]]
              /\ n = 2 => doc[e] = paid
              /\ n = 3 => doc[e] \in GenerateReceiptPayloads(paid)
              /\ n >= 4 => DOMAIN doc[e] = {"processed", "results"}
                           /\ doc[e]["results"][1]["orderId"] = o

C2_Witness ==
    \E e \in Executions :
        /\ status[e] = "SUCCEEDED"
        /\ Completed(e, "ValidateOrder")
        /\ "validation" \notin DOMAIN doc[e]

\* C4: a running execution whose 5 minutes are up can only end TIMED_OUT
\* (the workflow's Failed with reason timeout), in whichever state it is,
\* with the state, the document and the receipts left as they are; nothing
\* but the expired timeout ends an execution that way; and no execution
\* runs past the timeout.
C4_TimeoutEnds ==
    [][\A e \in Executions :
          /\ ( /\ status[e] = "RUNNING"
               /\ elapsed[e] >= TimeoutMinutes
               /\ <<status[e], step[e], doc[e], trace[e]>>
                    # <<status'[e], step'[e], doc'[e], trace'[e]>> )
             => /\ status'[e] = "TIMED_OUT"
                /\ step'[e] = step[e] /\ doc'[e] = doc[e] /\ trace'[e] = trace[e]
                /\ bucket' = bucket
          /\ (status'[e] = "TIMED_OUT" /\ status[e] # "TIMED_OUT")
             => status[e] = "RUNNING" /\ elapsed[e] >= TimeoutMinutes
          /\ elapsed'[e] <= TimeoutMinutes]_vars

C4_Witness ==
    \E e1, e2 \in Executions :
        /\ status[e1] = "TIMED_OUT" /\ step[e1] = "ValidateOrder"
        /\ status[e2] = "TIMED_OUT" /\ step[e2] = "NotifyCustomer"
        /\ bucket[ReceiptKey(order[e2])] # <<>>

\* C5: a message is received at most maxReceiveCount times; one that has
\* failed that often can only move to the dead-letter queue; a message in
\* the dead-letter queue has failed maxReceiveCount deliveries, never
\* fewer, stays there, is not delivered again, and neither a delivery nor
\* the move starts a workflow execution.
C5_DeadLetter ==
    /\ [](\A m \in Messages :
            /\ msgState[m] = "dlq" => receiveCount[m] = MaxReceiveCount
            /\ msgState[m] # "deleted" => ownFailures[m] <= receiveCount[m]
            /\ receiveCount[m] <= MaxReceiveCount)
    /\ [][\A m \in Messages :
            /\ receiveCount'[m] # receiveCount[m]
               => msgState[m] = "visible" /\ receiveCount[m] < MaxReceiveCount
            /\ msgState[m] = "dlq"
               => msgState'[m] = "dlq" /\ receiveCount'[m] = receiveCount[m]
            /\ ( /\ msgState[m] = "visible"
                 /\ receiveCount[m] >= MaxReceiveCount
                 /\ msgState'[m] # "visible" )
               => msgState'[m] = "dlq"
            /\ status' = status]_vars

C5_Witness ==
    \E m \in Messages : msgState[m] = "dlq" /\ receiveCount[m] = 3

\* C6 as stated: a message whose own record was processed without failure
\* in some delivery has left the queue: it is not redelivered and its
\* receive count does not grow because another record of its batch failed.
C6_BatchIsolation ==
    \A m \in Messages :
        receiveCount[m] > ownFailures[m] => msgState[m] = "deleted"

\* C7 as stated: at most one running execution per order.
C7_OneActivePerOrder ==
    \A o \in Orders :
        Cardinality({e \in Executions : status[e] = "RUNNING" /\ order[e] = o}) <= 1

\* C9: every started execution reaches SUCCEEDED, FAILED or TIMED_OUT (again
\* and again no execution is left running), and an execution that has ended
\* is never touched again: no state of it runs and its outcome stays.
C9_Terminates ==
    /\ []<>(\A e \in Executions : status[e] # "RUNNING")
    /\ [][\A e \in Executions :
            Terminal(e) =>
                /\ status'[e] = status[e] /\ step'[e] = step[e]
                /\ trace'[e] = trace[e] /\ doc'[e] = doc[e]
                /\ elapsed'[e] = elapsed[e] /\ order'[e] = order[e]]_vars

C9_Witness ==
    \E e1, e2 \in Executions :
        /\ status[e1] = "SUCCEEDED"
        /\ status[e2] = "TIMED_OUT" /\ step[e2] = "GenerateReceipt"

====
